---------------------------- MODULE Spec2Model ----------------------------
(***************************************************************************)
(* A model of the IntesisBox WMP client                                    *)
(* (custom_components/intesisbox/intesisbox.py).                           *)
(*                                                                         *)
(* Text is modelled at character level: a Python str is a sequence of      *)
(* one-character strings, so that splitlines, split and the slice [1:-1]   *)
(* are computed the way the code computes them.  Python's None is the      *)
(* value None below, which is no character sequence.                       *)
(***************************************************************************)
EXTENDS Integers, Sequences, FiniteSets, TLC

(***************************************************************************)
(* Bounds of the model.                                                    *)
(***************************************************************************)
\* Number of TCP connection attempts (create_connection calls) explored.
MaxConn == 2
\* Number of live loops of one kind explored.
MaxLoops == 2
\* Number of update listeners registered.
MaxListeners == 2

(***************************************************************************)
(* Constants of intesisbox.py.                                             *)
(***************************************************************************)
None == <<"None">>

API_DISCONNECTED == "Disconnected"
API_CONNECTING == "Connecting"
API_AUTHENTICATED == "Connected"

POWER_ON == <<"O", "N">>
POWER_OFF == <<"O", "F", "F">>

MODE_AUTO == <<"A", "U", "T", "O">>
MODE_DRY == <<"D", "R", "Y">>
MODE_FAN == <<"F", "A", "N">>
MODE_COOL == <<"C", "O", "O", "L">>
MODE_HEAT == <<"H", "E", "A", "T">>
MODES == {MODE_AUTO, MODE_DRY, MODE_FAN, MODE_COOL, MODE_HEAT}

FUNCTION_ONOFF == <<"O", "N", "O", "F", "F">>
FUNCTION_MODE == <<"M", "O", "D", "E">>
FUNCTION_SETPOINT == <<"S", "E", "T", "P", "T", "E", "M", "P">>
FUNCTION_FANSP == <<"F", "A", "N", "S", "P">>
FUNCTION_VANEUD == <<"V", "A", "N", "E", "U", "D">>
FUNCTION_VANELR == <<"V", "A", "N", "E", "L", "R">>
FUNCTION_AMBTEMP == <<"A", "M", "B", "T", "E", "M", "P">>
FUNCTION_ERRSTATUS == <<"E", "R", "R", "S", "T", "A", "T", "U", "S">>
FUNCTION_ERRCODE == <<"E", "R", "R", "C", "O", "D", "E">>

NULL_VALUES == {<<"-", "3", "2", "7", "6", "8">>, <<"3", "2", "7", "6", "8">>}

\* The retry budget of set_mode.
RetryBound == 30

\* The command tokens data_received dispatches on.
CmdID == <<"I", "D">>
CmdCHN == <<"C", "H", "N", ",", "1">>
CmdLIMITS == <<"L", "I", "M", "I", "T", "S">>

\* The commands the client writes (without the trailing "\r" _write adds).
GetAll == <<"G", "E", "T", ",", "1", ":", "*">>
GetAmbtemp == <<"G", "E", "T", ",", "1", ":">> \o FUNCTION_AMBTEMP
GetMode == <<"G", "E", "T", ",", "1", ":">> \o FUNCTION_MODE
Ping == <<"P", "I", "N", "G">>

SetCmd(uid, value) == <<"S", "E", "T", ",", "1", ":">> \o uid \o <<",">> \o value

StartupCmdsLimitsFirst ==
    << CmdLIMITS \o <<":">> \o FUNCTION_SETPOINT,
       CmdID,
       CmdLIMITS \o <<":">> \o FUNCTION_FANSP,
       CmdLIMITS \o <<":">> \o FUNCTION_MODE,
       CmdLIMITS \o <<":">> \o FUNCTION_VANEUD,
       CmdLIMITS \o <<":">> \o FUNCTION_VANELR >>

\* cmds of query_initial_state, in order.
StartupCmds ==
    << CmdID,
       CmdLIMITS \o <<":">> \o FUNCTION_SETPOINT,
       CmdLIMITS \o <<":">> \o FUNCTION_FANSP,
       CmdLIMITS \o <<":">> \o FUNCTION_MODE,
       CmdLIMITS \o <<":">> \o FUNCTION_VANEUD,
       CmdLIMITS \o <<":">> \o FUNCTION_VANELR >>

(***************************************************************************)
(* Python string operations, computed on character sequences.              *)
(***************************************************************************)
RECURSIVE SplitLines(_)
\* str.splitlines(): "\r", "\n" and "\r\n" end a line; a non-empty
\* unterminated tail is a line, an empty one is not.
SplitLines(s) ==
    LET breaks == {i \in 1..Len(s) : s[i] = "\r" \/ s[i] = "\n"}
    IN IF s = <<>> THEN <<>>
       ELSE IF breaks = {} THEN <<s>>
       ELSE LET p == CHOOSE i \in breaks : \A j \in breaks : i <= j
                n == IF s[p] = "\r" /\ p < Len(s) /\ s[p + 1] = "\n"
                     THEN p + 2 ELSE p + 1
            IN <<SubSeq(s, 1, p - 1)>> \o SplitLines(SubSeq(s, n, Len(s)))

\* Position of the first occurrence of character c in s, 0 when there is none.
Find(s, c) ==
    IF \E i \in 1..Len(s) : s[i] = c
    THEN CHOOSE i \in 1..Len(s) : s[i] = c /\ \A j \in 1..(i - 1) : s[j] # c
    ELSE 0

\* str.split(c, 1)
SplitOnce(s, c) ==
    LET p == Find(s, c)
    IN IF p = 0 THEN <<s>>
       ELSE <<SubSeq(s, 1, p - 1), SubSeq(s, p + 1, Len(s))>>

RECURSIVE Split(_, _)
\* str.split(c)
Split(s, c) ==
    LET p == Find(s, c)
    IN IF p = 0 THEN <<s>>
       ELSE <<SubSeq(s, 1, p - 1)>> \o Split(SubSeq(s, p + 1, Len(s)), c)

\* The slice s[1:], which keeps the last character.
SliceFromOne(s) == SubSeq(s, 2, Len(s))

\* The slice s[1:-1].
Slice1(s) == SubSeq(s, 2, Len(s) - 1)

Digits == {"0", "1", "2", "3", "4", "5", "6", "7", "8", "9"}

DigitVal(c) ==
    CASE c = "0" -> 0 [] c = "1" -> 1 [] c = "2" -> 2 [] c = "3" -> 3
      [] c = "4" -> 4 [] c = "5" -> 5 [] c = "6" -> 6 [] c = "7" -> 7
      [] c = "8" -> 8 [] c = "9" -> 9

RECURSIVE DigitsToNat(_)
DigitsToNat(s) ==
    IF s = <<>> THEN 0
    ELSE 10 * DigitsToNat(SubSeq(s, 1, Len(s) - 1)) + DigitVal(s[Len(s)])

\* Whether int(s) returns (it raises ValueError otherwise): an optional sign
\* and at least one digit.
IsInt(s) ==
    LET body == IF s # <<>> /\ s[1] \in {"-", "+"} THEN Tail(s) ELSE s
    IN body # <<>> /\ \A i \in 1..Len(body) : body[i] \in Digits

\* int(s), for s with IsInt(s).
ToInt(s) ==
    IF s[1] = "-" THEN 0 - DigitsToNat(Tail(s))
    ELSE IF s[1] = "+" THEN DigitsToNat(Tail(s))
    ELSE DigitsToNat(s)

\* The float n / 10, kept exactly as its number of tenths.
DivTen(n) == <<"tenths", n>>

\* Python truthiness of a cache value: None and "" are false.
Truthy(v) == v # None /\ v # <<>>


(***************************************************************************)
(* State.                                                                  *)
(***************************************************************************)
VARIABLES
    hasAddr,           \* self._ip and self._port are both truthy
    connectionStatus,  \* self._connectionStatus
    transport,         \* self._transport: NoTransport (None) or a transport
    ident,             \* self._model, _mac, _firmversion, _rssi
    device,            \* self._device: function code -> raw value or None
    limits,            \* the limits fields set by _parse_limits_received
    conn,              \* the event loop's view of each connection attempt
    query,             \* position of each query_initial_state task
    loops,             \* live poll_status / poll_ambtemp tasks per transport
    lossNotes,         \* update fan-outs that reported the loss of a transport
    updates,           \* update fan-outs run by the last step
    raised,            \* the exception the last call let escape, or "none"
    sm,                \* the set_mode call in progress on the caller thread
    updateCallbacks,   \* self._updateCallbacks: the listeners, in order
    notified,          \* the listeners the last step called, in order
    wrote,             \* what the last step wrote to a socket, or NoWrite
    wire               \* the gateway's line that TCP is delivering in pieces

vars == <<hasAddr, connectionStatus, transport, ident, device, limits, conn,
          query, loops, lossNotes, updates, raised, sm, updateCallbacks,
          notified, wrote, wire>>

Transports == 1..MaxConn

\* self._transport is None
NoTransport == 0

\* States of a connection attempt: not yet made; create_connection running;
\* failed; transport open; close() called or peer gone, connection_lost not
\* yet delivered; connection_lost delivered.
ConnStates == {"unused", "pending", "failed", "open", "closing", "closed"}

\* The periodic loops of the client.
LoopKinds == {"keep_alive", "poll_status", "poll_ambtemp"}

\* The loops the ID branch of data_received starts.
StartedOnId == {"poll_status", "poll_ambtemp"}

\* The command a periodic loop writes.
LoopCmd(kind) ==
    IF kind = "poll_status" THEN GetAll
    ELSE IF kind = "poll_ambtemp" THEN GetAmbtemp
    ELSE Ping

\* transport.is_closing()
IsClosing(t) == conn[t] \in {"closing", "closed"}

\* transport.close(): starts closing an open transport, no effect otherwise.
Closed(c, t) == IF c[t] = "open" THEN [c EXCEPT ![t] = "closing"] ELSE c

\* self._device.get(function)
Get(d, function) == IF function \in DOMAIN d THEN d[function] ELSE None

PutAlone(d, function, value) == [k \in {function} |-> value]

\* self._device[function] = value
Put(d, function, value) ==
    [k \in DOMAIN d \cup {function} |-> IF k = function THEN value ELSE d[k]]

\* The step wrote nothing to a socket.
NoWrite == <<>>

\* self._transport.write(f"{cmd}\r".encode("ascii")): the bytes reach the
\* socket of transport t; a transport that is closing or closed drops them.
Write(c, t, cmd) == IF c[t] = "open" THEN <<t, cmd \o <<"\r">>>> ELSE NoWrite

\* No line is being delivered in pieces.  Of a line in flight: rest is the
\* part the gateway has sent and data_received has not been given yet,
\* expect the client's fields as the whole line would leave them.
NoWire == [rest |-> <<>>, expect |-> <<>>]

\* What a listener does when it is called.
ListenerKinds == {"returns", "raises"}

\* _send_update_callback over the listeners cbs: the listeners it calls, in
\* order, and the exception that leaves it, "none" when there is none.  A
\* listener that raises ends the for loop.
SendUpdateCallback(cbs) ==
    LET bad == {i \in 1..Len(cbs) : cbs[i] = "raises"}
    IN IF bad = {}
       THEN [called |-> [i \in 1..Len(cbs) |-> i], exc |-> "none"]
       ELSE LET first == CHOOSE i \in bad : \A j \in bad : i <= j
            IN [called |-> [i \in 1..first |-> i], exc |-> "ListenerError"]

(***************************************************************************)
(* The response parser.  A parser works on the record o of the fields      *)
(* data_received and its helpers read and write:                           *)
(*   status, ident, device, limits  the client's fields                    *)
(*   ids      the number of ID lines processed                             *)
(*   changed  statusChanged                                                *)
(*   exc      the exception raised, "none" while there is none             *)
(***************************************************************************)
ParseIdShifted(o, args) ==
    LET info == Split(args, ",")
    IN IF Len(info) >= 6
       THEN [o EXCEPT !.ident = [model |-> info[1], mac |-> info[2],
                                 firmversion |-> info[4], rssi |-> info[5]]]
       ELSE o

\* _parse_id_received
ParseId(o, args) ==
    LET info == Split(args, ",")
    IN IF Len(info) >= 6
       THEN [o EXCEPT !.ident = [model |-> info[1], mac |-> info[2],
                                 firmversion |-> info[5], rssi |-> info[6]]]
       ELSE o

NormalizeKeep(value) == value

\* The value _parse_change_received stores for a received value.
Normalize(value) == IF value \in NULL_VALUES THEN None ELSE value

\* _parse_change_received
ParseChange(o, args) ==
    LET parts == Split(args, ",")
    IN IF Len(parts) < 2
       THEN [o EXCEPT !.exc = "IndexError"]
       ELSE [o EXCEPT !.device = Put(o.device, parts[1], Normalize(parts[2]))]

\* _parse_limits_received
ParseLimits(o, args) ==
    LET split_args == SplitOnce(args, ",")
    IN IF Len(split_args) # 2 THEN o
       ELSE
         LET function == split_args[1]
             values == Split(Slice1(split_args[2]), ",")
         IN IF function = FUNCTION_SETPOINT /\ Len(values) = 2
            THEN IF ~IsInt(values[1])
                 THEN [o EXCEPT !.exc = "ValueError"]
                 ELSE IF ~IsInt(values[2])
                      THEN [o EXCEPT
                              !.limits.setpoint_minimum = DivTen(ToInt(values[1])),
                              !.exc = "ValueError"]
                      ELSE [o EXCEPT
                              !.limits.setpoint_minimum = DivTen(ToInt(values[1])),
                              !.limits.setpoint_maximum = DivTen(ToInt(values[2]))]
            ELSE IF function = FUNCTION_FANSP
                 THEN [o EXCEPT !.limits.fan_speed_list = values]
            ELSE IF function = FUNCTION_MODE
                 THEN [o EXCEPT !.limits.operation_list = values]
            ELSE IF function = FUNCTION_VANEUD
                 THEN [o EXCEPT !.limits.vertical_vane_list = values]
            ELSE IF function = FUNCTION_VANELR
                 THEN [o EXCEPT !.limits.horizontal_vane_list = values]
            ELSE o

AfterIdStays(o) == [o EXCEPT !.ids = o.ids + 1]

\* The connection state after an ID line has been handled.
AfterId(o) == [o EXCEPT !.status = API_AUTHENTICATED, !.ids = o.ids + 1]

\* The body of data_received's loop for one line.
ProcessLine(o, line) ==
    LET cmdList == SplitOnce(line, ":")
    IN IF Len(cmdList) <= 1 THEN o
       ELSE LET cmd == cmdList[1]
                args == cmdList[2]
            IN IF cmd = CmdID THEN AfterId(ParseId(o, args))
               ELSE IF cmd = CmdCHN
                    THEN LET p == ParseChange(o, args)
                         IN IF p.exc # "none" THEN p
                            ELSE [p EXCEPT !.changed = TRUE]
               ELSE IF cmd = CmdLIMITS
                    THEN LET p == ParseLimits(o, args)
                         IN IF p.exc # "none" THEN p
                            ELSE [p EXCEPT !.changed = TRUE]
               ELSE o

RECURSIVE ProcessLines(_, _)
\* data_received's loop: the lines in order, up to the first that raises.
ProcessLines(o, lines) ==
    IF lines = <<>> \/ o.exc # "none" THEN o
    ELSE ProcessLines(ProcessLine(o, Head(lines)), Tail(lines))

(***************************************************************************)
(* Accessors.                                                              *)
(***************************************************************************)
is_connected == connectionStatus = API_AUTHENTICATED
is_onNever == FALSE

is_on == Get(device, FUNCTION_ONOFF) = POWER_ON
mode == Get(device, FUNCTION_MODE)
fan_speed == Get(device, FUNCTION_FANSP)
vertical_swing == Get(device, FUNCTION_VANEUD)
horizontal_swing == Get(device, FUNCTION_VANELR)
device_mac_address == ident.mac

\* The value of `(int(v) / 10) if v else None`; <<"ValueError">> when int raises.
TenthsOrNone(v) ==
    IF ~Truthy(v) THEN None
    ELSE IF IsInt(v) THEN DivTen(ToInt(v)) ELSE <<"ValueError">>

setpoint == TenthsOrNone(Get(device, FUNCTION_SETPOINT))
ambient_temperature == TenthsOrNone(Get(device, FUNCTION_AMBTEMP))

(***************************************************************************)
(* Construction.                                                           *)
(***************************************************************************)
NoIdent == [model |-> None, mac |-> None, firmversion |-> None, rssi |-> None]

NoLimits ==
    [operation_list |-> <<>>, fan_speed_list |-> <<>>,
     vertical_vane_list |-> <<>>, horizontal_vane_list |-> <<>>,
     setpoint_minimum |-> None, setpoint_maximum |-> None]

\* No set_mode call in progress.  Of a call: pc is its position, mode its
\* argument, retry its local variable; sets, polls and ons count the
\* SET,1:MODE, GET,1:MODE and SET,1:ONOFF,ON commands it has written so far;
\* confirmed is what the while condition found when the loop ended ("na"
\* while it has not); wasOn is what is_on was when the call was made.
SmIdle == [pc |-> "idle", mode |-> <<>>, retry |-> 0, sets |-> 0, polls |-> 0,
           ons |-> 0, confirmed |-> "na", wasOn |-> FALSE]

\* __init__; the address is the constructor's argument.
Init ==
    /\ hasAddr \in BOOLEAN
    /\ updateCallbacks = <<>>
    /\ notified = <<>>
    /\ wrote = NoWrite
    /\ wire = NoWire
    /\ connectionStatus = API_DISCONNECTED
    /\ transport = NoTransport
    /\ ident = NoIdent
    /\ device = << >>
    /\ limits = NoLimits
    /\ conn = [t \in Transports |-> "unused"]
    /\ query = [t \in Transports |-> 0]
    /\ loops = [k \in LoopKinds |-> [t \in Transports |-> 0]]
    /\ lossNotes = [t \in Transports |-> 0]
    /\ updates = 0
    /\ raised = "none"
    /\ sm = SmIdle

setupVars == <<hasAddr, updateCallbacks>>
cacheVars == <<ident, device, limits>>
taskVars == <<query, loops>>

(***************************************************************************)
(* Connection manager.                                                     *)
(***************************************************************************)
\* connect(), state Disconnected: create_connection is scheduled as a
\* background task when the address is set.
ConnectFromDisconnected ==
    /\ connectionStatus = API_DISCONNECTED
    /\ IF hasAddr
       THEN \E t \in Transports :
              /\ conn[t] = "unused"
              /\ \A u \in Transports : u < t => conn[u] # "unused"
              /\ conn' = [conn EXCEPT ![t] = "pending"]
              /\ connectionStatus' = API_CONNECTING
       ELSE UNCHANGED <<conn, connectionStatus>>
    /\ raised' = "none"
    /\ updates' = 0
    /\ notified' = <<>>
    /\ wrote' = NoWrite
    /\ UNCHANGED lossNotes

\* connect(), state Connecting: self._transport.is_closing() is evaluated,
\* on None before the first connection_made.
ConnectWhileConnecting ==
    /\ connectionStatus = API_CONNECTING
    /\ IF transport = NoTransport
       THEN /\ raised' = "AttributeError"
            /\ updates' = 0
            /\ notified' = <<>>
            /\ wrote' = NoWrite
            /\ UNCHANGED <<connectionStatus, conn, lossNotes>>
       ELSE IF IsClosing(transport)
            THEN /\ connectionStatus' = API_DISCONNECTED
                 /\ conn' = Closed(conn, transport)
                 /\ updates' = 1
                 /\ notified' = SendUpdateCallback(updateCallbacks).called
                 /\ wrote' = NoWrite
                 /\ lossNotes' = [lossNotes EXCEPT ![transport] = @ + 1]
                 /\ raised' = SendUpdateCallback(updateCallbacks).exc
            ELSE /\ raised' = "none"
                 /\ updates' = 0
                 /\ notified' = <<>>
                 /\ wrote' = NoWrite
                 /\ UNCHANGED <<connectionStatus, conn, lossNotes>>

\* connect(), state Authenticated: neither branch is taken.
ConnectWhileAuthenticated ==
    /\ connectionStatus = API_AUTHENTICATED
    /\ raised' = "none"
    /\ updates' = 0
    /\ notified' = <<>>
    /\ wrote' = NoWrite
    /\ UNCHANGED <<connectionStatus, conn, lossNotes>>

\* connect()
Connect ==
    /\ \/ ConnectFromDisconnected
       \/ ConnectWhileConnecting
       \/ ConnectWhileAuthenticated
    /\ UNCHANGED <<setupVars, wire, transport, cacheVars, taskVars, sm>>

\* connection_made, called when create_connection succeeds.
ConnectionMade(t) ==
    /\ conn[t] = "pending"
    /\ conn' = [conn EXCEPT ![t] = "open"]
    /\ transport' = t
    /\ query' = [query EXCEPT ![t] = 1]
    /\ updates' = 0
    /\ notified' = <<>>
    /\ wrote' = NoWrite
    /\ raised' = "none"
    /\ UNCHANGED <<setupVars, wire, connectionStatus, cacheVars, loops, lossNotes, sm>>

\* create_connection fails: the task ends with the exception, which
\* clean_background_task re-raises into the event loop's handler.
ConnectFailed(t) ==
    /\ conn[t] = "pending"
    /\ conn' = [conn EXCEPT ![t] = "failed"]
    /\ updates' = 0
    /\ notified' = <<>>
    /\ wrote' = NoWrite
    /\ raised' = "none"
    /\ UNCHANGED <<setupVars, wire, connectionStatus, transport, cacheVars, taskVars,
                   lossNotes, sm>>

\* stop()
Stop ==
    /\ connectionStatus' = API_DISCONNECTED
    /\ IF transport = NoTransport
       THEN /\ raised' = "AttributeError"
            /\ UNCHANGED conn
       ELSE /\ raised' = "none"
            /\ conn' = Closed(conn, transport)
    /\ updates' = 0
    /\ notified' = <<>>
    /\ wrote' = NoWrite
    /\ UNCHANGED <<setupVars, wire, transport, cacheVars, taskVars, lossNotes, sm>>

\* The peer closes the connection or the socket fails: the transport starts
\* closing and the event loop schedules connection_lost.
Drop(t) ==
    /\ conn[t] = "open"
    /\ conn' = [conn EXCEPT ![t] = "closing"]
    /\ updates' = 0
    /\ notified' = <<>>
    /\ wrote' = NoWrite
    /\ raised' = "none"
    /\ UNCHANGED <<setupVars, wire, connectionStatus, transport, cacheVars, taskVars,
                   lossNotes, sm>>

\* connection_lost, called once by the event loop for a closing transport.
ConnectionLost(t) ==
    /\ conn[t] = "closing"
    /\ conn' = [conn EXCEPT ![t] = "closed"]
    /\ connectionStatus' = API_DISCONNECTED
    /\ updates' = 1
    /\ notified' = SendUpdateCallback(updateCallbacks).called
    /\ wrote' = NoWrite
    /\ lossNotes' = [lossNotes EXCEPT ![t] = @ + 1]
    /\ raised' = SendUpdateCallback(updateCallbacks).exc
    /\ UNCHANGED <<setupVars, wire, transport, cacheVars, taskVars, sm>>

(***************************************************************************)
(* Inbound data.                                                           *)
(***************************************************************************)
\* The fields of the client as data_received finds them.
Entry ==
    [status |-> connectionStatus, ident |-> ident, device |-> device,
     limits |-> limits, ids |-> 0, changed |-> FALSE, exc |-> "none"]

RECURSIVE SumTo(_, _)
SumTo(f, n) == IF n = 0 THEN 0 ELSE f[n] + SumTo(f, n - 1)

\* The number of live loops of a kind.
Live(k) == SumTo(loops[k], MaxConn)

\* The fields of the client after data_received's loop over the lines of
\* data, starting from the fields o.
Received(o, data) == ProcessLines(o, SplitLines(data))

\* data_received(data) on transport t.  Each ID line starts a poll_status and
\* a poll_ambtemp task.  An exception leaves data_received at the line that
\* raised it, or at the listener that raised it; the event loop then treats
\* it as fatal for the transport and force-closes it.
Deliver(t, data) ==
    LET o == Received(Entry, data)
        fanout == o.exc = "none" /\ o.changed
        f == SendUpdateCallback(updateCallbacks)
        exc == IF fanout THEN f.exc ELSE o.exc
    IN /\ conn[t] = "open"
       /\ \A k \in StartedOnId : Live(k) + o.ids <= MaxLoops
       /\ connectionStatus' = o.status
       /\ ident' = o.ident
       /\ device' = o.device
       /\ limits' = o.limits
       /\ loops' = [k \in LoopKinds |->
                      IF k \in StartedOnId
                      THEN [loops[k] EXCEPT ![t] = @ + o.ids]
                      ELSE loops[k]]
       /\ updates' = IF fanout THEN 1 ELSE 0
       /\ notified' = IF fanout THEN f.called ELSE <<>>
       /\ wrote' = NoWrite
       /\ raised' = exc
       /\ conn' = IF exc = "none" THEN conn
                  ELSE [conn EXCEPT ![t] = "closing"]
       /\ UNCHANGED <<setupVars, transport, query, lossNotes, sm>>

\* data_received with a chunk that the gateway sent and TCP delivered whole.
DataReceived(t, data) == Deliver(t, data) /\ UNCHANGED wire

(***************************************************************************)
(* Background tasks.                                                       *)
(***************************************************************************)
\* One iteration of query_initial_state's loop, for the task that
\* connection_made(t) started.
QueryInitialState(t) ==
    /\ query[t] \in 1..Len(StartupCmds)
    /\ query' = [query EXCEPT ![t] = @ + 1]
    /\ updates' = 0
    /\ notified' = <<>>
    /\ wrote' = Write(conn, transport, StartupCmds[query[t]])
    /\ raised' = "none"
    /\ UNCHANGED <<setupVars, connectionStatus, transport, cacheVars, conn,
                   loops, lossNotes, sm>>

\* The iteration, with what is in flight from the gateway left as it is.
QueryStep(t) == QueryInitialState(t) /\ UNCHANGED wire

LoopContinuesAlways == TRUE

\* Whether a periodic loop goes round again when it wakes up.
LoopContinues == is_connected

\* A poll_status or poll_ambtemp task started on transport t wakes up (or
\* runs for the first time): it writes and sleeps again, or it ends.
Poll(kind, t) ==
    /\ loops[kind][t] > 0
    /\ IF LoopContinues
       THEN UNCHANGED loops
       ELSE loops' = [loops EXCEPT ![kind][t] = @ - 1]
    /\ updates' = 0
    /\ notified' = <<>>
    /\ wrote' = IF LoopContinues
                THEN Write(conn, transport, LoopCmd(kind))
                ELSE NoWrite
    /\ raised' = "none"
    /\ UNCHANGED <<setupVars, connectionStatus, transport, cacheVars, conn,
                   query, lossNotes, sm>>

\* The wake-up, with what is in flight from the gateway left as it is.
PollWake(kind, t) == Poll(kind, t) /\ UNCHANGED wire

(***************************************************************************)
(* Inbound chunks explored.                                                *)
(***************************************************************************)
ChunkIdOk == <<"I", "D", ":", "M", ",", "A", ",", "I", ",", "P", ",", "V", ",", "4", "\r", "\n">>
ChunkIdShort == <<"I", "D", ":", "M", ",", "A", "\r", "\n">>
ChunkNoValue == <<"C", "H", "N", ",", "1", ":", "M", "O", "D", "E", "\r", "\n">>

ConnChunks == {ChunkIdOk, ChunkIdShort, ChunkNoValue}

(***************************************************************************)
(* The client with its callers, its event loop and the gateway.            *)
(***************************************************************************)
Next ==
    \/ Connect
    \/ Stop
    \/ \E t \in Transports : ConnectionMade(t)
    \/ \E t \in Transports : ConnectFailed(t)
    \/ \E t \in Transports : Drop(t)
    \/ \E t \in Transports : ConnectionLost(t)
    \/ \E t \in Transports, data \in ConnChunks : DataReceived(t, data)
    \/ \E t \in Transports : QueryStep(t)
    \/ \E t \in Transports, kind \in LoopKinds : PollWake(kind, t)

Spec == Init /\ [][Next]_vars

(***************************************************************************)
(* Command sender: set_mode, run by a caller on a thread of its own.  Each *)
(* action is one stretch of set_mode between two reads of the client's     *)
(* fields, which the event loop's data_received may change in between.     *)
(***************************************************************************)
\* Whether self._transport.write can be called: _writeasync raises
\* AttributeError on None.
CanWrite == transport # NoTransport

\* set_mode(m), up to the return of _set_value(FUNCTION_MODE, mode), which
\* swallows every exception of the write.
SetModeCall(m) ==
    /\ sm.pc \in {"idle", "done"}
    /\ sm' = [pc |-> "ison", mode |-> m, retry |-> 0,
              sets |-> IF m \in MODES /\ CanWrite THEN 1 ELSE 0,
              polls |-> 0, ons |-> 0, confirmed |-> "na", wasOn |-> is_on]
    /\ updates' = 0
    /\ notified' = <<>>
    /\ wrote' = IF m \in MODES /\ CanWrite
                THEN Write(conn, transport, SetCmd(FUNCTION_MODE, m))
                ELSE NoWrite
    /\ raised' = "none"
    /\ UNCHANGED <<setupVars, wire, connectionStatus, transport, cacheVars, conn,
                   taskVars, lossNotes>>

\* `if not self.is_on:` and `retry = 30`
SetModeIsOn ==
    /\ sm.pc = "ison"
    /\ sm' = IF ~is_on
             THEN [sm EXCEPT !.pc = "loop", !.retry = RetryBound]
             ELSE [sm EXCEPT !.pc = "done"]
    /\ updates' = 0
    /\ notified' = <<>>
    /\ wrote' = NoWrite
    /\ raised' = "none"
    /\ UNCHANGED <<setupVars, wire, connectionStatus, transport, cacheVars, conn,
                   taskVars, lossNotes>>

PowersOnAlways(retry) == TRUE

\* The test `if retry != 0` of the while loop's else clause.
PowersOn(retry) == retry # 0

\* The while condition, and the else clause's test when it is false.
SetModeLoop ==
    /\ sm.pc = "loop"
    /\ sm' = IF mode # sm.mode /\ sm.retry > 0
             THEN [sm EXCEPT !.pc = "poll"]
             ELSE [sm EXCEPT
                     !.confirmed = IF mode = sm.mode THEN "yes" ELSE "no",
                     !.pc = IF PowersOn(sm.retry) THEN "on" ELSE "done"]
    /\ updates' = 0
    /\ notified' = <<>>
    /\ wrote' = NoWrite
    /\ raised' = "none"
    /\ UNCHANGED <<setupVars, wire, connectionStatus, transport, cacheVars, conn,
                   taskVars, lossNotes>>

\* retry after one more poll.
NextRetry(retry) == retry - 1

\* The loop body: asyncio.run(self._writeasync("GET,1:MODE")), whose exception
\* nothing catches, and `retry -= 1`.
SetModePoll ==
    /\ sm.pc = "poll"
    /\ IF CanWrite
       THEN /\ sm' = [sm EXCEPT !.pc = "loop", !.polls = @ + 1,
                                !.retry = NextRetry(@)]
            /\ raised' = "none"
       ELSE /\ sm' = [sm EXCEPT !.pc = "done"]
            /\ raised' = "AttributeError"
    /\ updates' = 0
    /\ notified' = <<>>
    /\ wrote' = IF CanWrite THEN Write(conn, transport, GetMode) ELSE NoWrite
    /\ UNCHANGED <<setupVars, wire, connectionStatus, transport, cacheVars, conn,
                   taskVars, lossNotes>>

\* self.set_power_on(), through _set_value.
SetModePowerOn ==
    /\ sm.pc = "on"
    /\ sm' = [sm EXCEPT !.pc = "done",
                        !.ons = IF CanWrite THEN @ + 1 ELSE @]
    /\ updates' = 0
    /\ notified' = <<>>
    /\ wrote' = IF CanWrite
                THEN Write(conn, transport, SetCmd(FUNCTION_ONOFF, POWER_ON))
                ELSE NoWrite
    /\ raised' = "none"
    /\ UNCHANGED <<setupVars, wire, connectionStatus, transport, cacheVars, conn,
                   taskVars, lossNotes>>

\* _set_value(uid, value), which the one-shot setters call: the write runs
\* under asyncio.run on the caller's thread and every exception of it (the
\* AttributeError of a client without transport) is caught and logged.
SetValue(uid, value) ==
    /\ wrote' = IF CanWrite
                THEN Write(conn, transport, SetCmd(uid, value))
                ELSE NoWrite
    /\ updates' = 0
    /\ notified' = <<>>
    /\ raised' = "none"
    /\ UNCHANGED <<setupVars, wire, connectionStatus, transport, cacheVars, conn,
                   taskVars, lossNotes, sm>>

\* The one-shot setters called: set_fan_speed("2"), set_vertical_vane("AUTO"),
\* set_horizontal_vane("SWING"), set_power_off() and set_power_on().
OneShots ==
    {<<FUNCTION_FANSP, <<"2">>>>, <<FUNCTION_VANEUD, MODE_AUTO>>,
     <<FUNCTION_VANELR, <<"S", "W", "I", "N", "G">>>>,
     <<FUNCTION_ONOFF, POWER_OFF>>, <<FUNCTION_ONOFF, POWER_ON>>}

\* A step of set_mode.
SetModeStep ==
    \/ \E m \in {MODE_COOL, MODE_HEAT, <<"X">>} : SetModeCall(m)
    \/ SetModeIsOn
    \/ SetModeLoop
    \/ SetModePoll
    \/ SetModePowerOn

(***************************************************************************)
(* States of the client that the other specifications start from.          *)
(***************************************************************************)
\* After connect() and connection_made of the first transport.
JustConnected ==
    /\ hasAddr = TRUE
    /\ updateCallbacks = <<>>
    /\ notified = <<>>
    /\ wrote = NoWrite
    /\ wire = NoWire
    /\ connectionStatus = API_CONNECTING
    /\ transport = 1
    /\ ident = NoIdent
    /\ device = << >>
    /\ limits = NoLimits
    /\ conn = [t \in Transports |-> IF t = 1 THEN "open" ELSE "unused"]
    /\ query = [t \in Transports |-> IF t = 1 THEN 1 ELSE 0]
    /\ loops = [k \in LoopKinds |-> [t \in Transports |-> 0]]
    /\ lossNotes = [t \in Transports |-> 0]
    /\ updates = 0
    /\ raised = "none"
    /\ sm = SmIdle

\* After the first transport has delivered a complete ID line.
JustAuthenticated ==
    /\ hasAddr = TRUE
    /\ updateCallbacks = <<>>
    /\ notified = <<>>
    /\ wrote = NoWrite
    /\ wire = NoWire
    /\ connectionStatus = API_AUTHENTICATED
    /\ transport = 1
    /\ ident = [model |-> <<"M">>, mac |-> <<"A">>, firmversion |-> <<"V">>,
                rssi |-> <<"4">>]
    /\ device = << >>
    /\ limits = NoLimits
    /\ conn = [t \in Transports |-> IF t = 1 THEN "open" ELSE "unused"]
    /\ query = [t \in Transports |-> IF t = 1 THEN 1 ELSE 0]
    /\ loops = [k \in LoopKinds |->
                 [t \in Transports |-> IF t = 1 /\ k \in StartedOnId THEN 1 ELSE 0]]
    /\ lossNotes = [t \in Transports |-> 0]
    /\ updates = 0
    /\ raised = "none"
    /\ sm = SmIdle

\* After construction with an address, before any connect().
Fresh == Init /\ hasAddr = TRUE

(***************************************************************************)
(* The response parser on a connected transport.                           *)
(***************************************************************************)
ChunkSetpoint == <<"C", "H", "N", ",", "1", ":", "S", "E", "T", "P", "T", "E", "M", "P", ",", "2", "1", "0", "\r", "\n">>
ChunkSetpointNull == <<"C", "H", "N", ",", "1", ":", "S", "E", "T", "P", "T", "E", "M", "P", ",", "-", "3", "2", "7", "6", "8", "\r", "\n">>
ChunkAmb == <<"C", "H", "N", ",", "1", ":", "A", "M", "B", "T", "E", "M", "P", ",", "1", "8", "0", "\r", "\n">>
ChunkAmbNull == <<"C", "H", "N", ",", "1", ":", "A", "M", "B", "T", "E", "M", "P", ",", "3", "2", "7", "6", "8", "\r", "\n">>
ChunkModeCool == <<"C", "H", "N", ",", "1", ":", "M", "O", "D", "E", ",", "C", "O", "O", "L", "\r", "\n">>
ChunkModeNull == <<"C", "H", "N", ",", "1", ":", "M", "O", "D", "E", ",", "3", "2", "7", "6", "8", "\r", "\n">>
ChunkFanNull == <<"C", "H", "N", ",", "1", ":", "F", "A", "N", "S", "P", ",", "-", "3", "2", "7", "6", "8", "\r", "\n">>
ChunkVaneTwo == <<"C", "H", "N", ",", "1", ":", "V", "A", "N", "E", "U", "D", ",", "3", "2", "7", "6", "8", "\r", "\n", "C", "H", "N", ",", "1", ":", "V", "A", "N", "E", "L", "R", ",", "A", "U", "T", "O", "\r", "C", "H", "N", ",", "1", ":", "V", "A", "N", "E", "L", "R", ",", "-", "3", "2", "7", "6", "8">>
ChunkLimits == <<"L", "I", "M", "I", "T", "S", ":", "S", "E", "T", "P", "T", "E", "M", "P", ",", "[", "1", "6", "0", ",", "3", "0", "0", "]", "\r", "\n">>

\* A line that updates the cache followed by a line without a value.
ChunkCoolThenNoValue == <<"C", "H", "N", ",", "1", ":", "M", "O", "D", "E", ",", "C", "O", "O", "L", "\r", "\n", "C", "H", "N", ",", "1", ":", "M", "O", "D", "E", "\r", "\n">>
\* A line without a value followed by a line that updates the cache.
ChunkNoValueThenFan == <<"C", "H", "N", ",", "1", ":", "M", "O", "D", "E", "\r", "\n", "C", "H", "N", ",", "1", ":", "F", "A", "N", "S", "P", ",", "2", "\r", "\n">>
\* Limits of the setpoint whose second value is no number.
ChunkLimitsBad == <<"L", "I", "M", "I", "T", "S", ":", "S", "E", "T", "P", "T", "E", "M", "P", ",", "[", "1", "7", "0", ",", "x", "]", "\r", "\n">>

ParseChunks ==
    {ChunkIdOk, ChunkIdShort, ChunkNoValue, ChunkSetpoint, ChunkSetpointNull,
     ChunkAmb, ChunkAmbNull, ChunkModeCool, ChunkModeNull, ChunkFanNull,
     ChunkVaneTwo, ChunkLimits, ChunkCoolThenNoValue, ChunkNoValueThenFan,
     ChunkLimitsBad}

NextParse ==
    \/ \E t \in Transports, data \in ParseChunks : DataReceived(t, data)
    \/ \E t \in Transports : ConnectionLost(t)

SpecParse == JustConnected /\ [][NextParse]_vars

(***************************************************************************)
(* set_mode on the caller's thread against data_received on the event      *)
(* loop.                                                                   *)
(***************************************************************************)
ChunkModeHeat == <<"C", "H", "N", ",", "1", ":", "M", "O", "D", "E", ",", "H", "E", "A", "T", "\r", "\n">>
ChunkOn == <<"C", "H", "N", ",", "1", ":", "O", "N", "O", "F", "F", ",", "O", "N", "\r", "\n">>
ChunkOff == <<"C", "H", "N", ",", "1", ":", "O", "N", "O", "F", "F", ",", "O", "F", "F", "\r", "\n">>

ModeChunks == {ChunkModeCool, ChunkModeHeat, ChunkOn, ChunkOff}

NextMode ==
    \/ SetModeStep
    \/ \E c \in OneShots : SetValue(c[1], c[2])
    \/ \E t \in Transports, data \in ModeChunks : DataReceived(t, data)

SpecMode == (Fresh \/ JustAuthenticated) /\ [][NextMode]_vars

(***************************************************************************)
(* A byte stream of complete lines that TCP delivers in pieces: each line  *)
(* the gateway sends reaches data_received as its first i bytes and then   *)
(* the rest (i = Len(line): the line arrives whole).                       *)
(***************************************************************************)
\* The fields of the client that a response can change.
Fields(o) == <<o.status, o.ident, o.device, o.limits>>

\* The lines the gateway sends.
StreamLines == {ChunkIdOk, ChunkModeCool}

\* data_received with the first i bytes of a line the gateway has sent.
StreamHead(t, line, i) ==
    /\ wire.rest = <<>>
    /\ Deliver(t, SubSeq(line, 1, i))
    /\ wire' = [rest |-> SubSeq(line, i + 1, Len(line)),
                expect |-> Fields(Received(Entry, line))]

\* data_received with the rest of the line in flight.
StreamRest(t) ==
    /\ wire.rest # <<>>
    /\ Deliver(t, wire.rest)
    /\ wire' = [wire EXCEPT !.rest = <<>>]

NextStream ==
    \/ \E t \in Transports, line \in StreamLines :
          \E i \in 1..Len(line) : StreamHead(t, line, i)
    \/ \E t \in Transports : StreamRest(t)
    \/ \E t \in Transports : ConnectionLost(t)

SpecStream == JustConnected /\ [][NextStream]_vars

(***************************************************************************)
(* The periodic loops against the connection manager.                      *)
(***************************************************************************)
LoopChunks == {ChunkIdOk, ChunkIdShort}

NextLoops ==
    \/ Connect
    \/ Stop
    \/ \E t \in Transports : ConnectionMade(t)
    \/ \E t \in Transports : Drop(t)
    \/ \E t \in Transports : ConnectionLost(t)
    \/ \E t \in Transports, data \in LoopChunks : DataReceived(t, data)
    \/ \E t \in Transports, kind \in LoopKinds : PollWake(kind, t)

SpecLoops == JustConnected /\ [][NextLoops]_vars

(***************************************************************************)
(* The startup query sequence against the connection manager.              *)
(***************************************************************************)
NextStartup ==
    \/ Connect
    \/ Stop
    \/ \E t \in Transports : ConnectionMade(t)
    \/ \E t \in Transports : Drop(t)
    \/ \E t \in Transports : ConnectionLost(t)
    \/ \E t \in Transports : QueryStep(t)

SpecStartup == Fresh /\ [][NextStartup]_vars

(***************************************************************************)
(* The subscriber registry: listeners register on an Authenticated client  *)
(* and are called by data_received, connection_lost and connect.           *)
(***************************************************************************)
\* add_update_callback(method), for a method that behaves as b when called.
AddUpdateCallback(b) ==
    /\ Len(updateCallbacks) < MaxListeners
    /\ updateCallbacks' = Append(updateCallbacks, b)
    /\ updates' = 0
    /\ notified' = <<>>
    /\ wrote' = NoWrite
    /\ raised' = "none"
    /\ UNCHANGED <<hasAddr, wire, connectionStatus, transport, cacheVars, conn,
                   taskVars, lossNotes, sm>>

ListenChunks == {ChunkModeCool, ChunkIdOk}

NextListen ==
    \/ \E b \in ListenerKinds : AddUpdateCallback(b)
    \/ \E t \in Transports, data \in ListenChunks : DataReceived(t, data)
    \/ \E t \in Transports : Drop(t)
    \/ \E t \in Transports : ConnectionLost(t)
    \/ Connect

SpecListen == JustAuthenticated /\ [][NextListen]_vars

(***************************************************************************)
(* The cache, the limits and the identity across connections.              *)
(***************************************************************************)
\* The replies to ID and to LIMITS:SETPTEMP, delivered in one chunk.
ChunkIdLimits == ChunkIdOk \o ChunkLimits

CacheChunks == {ChunkIdLimits, ChunkModeCool, ChunkOn}

NextCache ==
    \/ Connect
    \/ Stop
    \/ \E t \in Transports : ConnectionMade(t)
    \/ \E t \in Transports : Drop(t)
    \/ \E t \in Transports : ConnectionLost(t)
    \/ \E t \in Transports, data \in CacheChunks : DataReceived(t, data)

SpecCache == JustConnected /\ [][NextCache]_vars

(***************************************************************************)
(* ID responses.  An ID line is given by its comma-separated fields:       *)
(* Model, MAC, IP, Protocol, Version, RSSI and whatever follows.           *)
(***************************************************************************)
RECURSIVE Join(_, _)
\* ",".join(fields), for the separator c.
Join(fields, c) ==
    IF Len(fields) = 1 THEN fields[1]
    ELSE fields[1] \o <<c>> \o Join(Tail(fields), c)

\* The line ID:<fields> as the gateway sends it.
IdLine(fields) == CmdID \o <<":">> \o Join(fields, ",") \o <<"\r", "\n">>

\* Six fields as the gateway sends them.
IdFieldsSix ==
    <<<<"W", "M", "P", "-", "1">>,
      <<"0", "0", "1", "D", "C", "9">>,
      <<"1", "0", ".", "0", ".", "0", ".", "5">>,
      <<"A", "S", "C", "I", "I">>,
      <<"v", "1", ".", "2">>,
      <<"-", "4", "4">>>>
\* Seven fields, with colons in the MAC.
IdFieldsSeven ==
    <<<<"M">>,
      <<"0", "0", ":", "1", "D">>,
      <<"I">>,
      <<"P">>,
      <<"V">>,
      <<"4">>,
      <<"X">>>>
\* Six empty fields.
IdFieldsEmpty == <<<<>>, <<>>, <<>>, <<>>, <<>>, <<>>>>

IdFieldLists == {IdFieldsSix, IdFieldsSeven, IdFieldsEmpty}

IdChunks == {IdLine(fields) : fields \in IdFieldLists} \cup {ChunkIdShort, ChunkModeCool}

NextIdent ==
    \/ \E t \in Transports, data \in IdChunks : DataReceived(t, data)
    \/ \E t \in Transports : Drop(t)
    \/ \E t \in Transports : ConnectionLost(t)
    \/ \E t \in Transports, kind \in LoopKinds : PollWake(kind, t)

SpecIdent == JustConnected /\ [][NextIdent]_vars

(***************************************************************************)
(* Properties.                                                             *)
(***************************************************************************)
\* C1: whenever the client is Authenticated (is_connected), the MAC address
\* is known.
C1_AuthenticatedKnowsMac == is_connected => device_mac_address # None

\* C2: a connect() made while the state is Connecting or Authenticated does
\* not raise, leaves the connection state as it is, and neither opens nor
\* closes a connection nor starts a startup query task.
C2_ConnectIsNoOp ==
    [][Connect /\ connectionStatus \in {API_CONNECTING, API_AUTHENTICATED}
         => /\ raised' = "none"
            /\ connectionStatus' = connectionStatus
            /\ conn' = conn
            /\ query' = query]_vars

\* No connection attempt is in progress and no transport is open or closing:
\* the event loop has nothing left to deliver to the client.
Quiet == \A t \in Transports : conn[t] \in {"unused", "failed", "closed"}

\* C3: once a connection attempt has failed and the event loop has nothing
\* left to deliver, the client is not left in Connecting.
C3_FailedAttemptLeavesConnecting ==
    (\E t \in Transports : conn[t] = "failed") /\ Quiet
        => connectionStatus # API_CONNECTING

\* C4: stop() never raises, leaves the state Disconnected, and leaves the
\* client's transport, if there is one, closing or closed.
C4_StopIsSafe ==
    [][Stop => /\ raised' = "none"
               /\ connectionStatus' = API_DISCONNECTED
               /\ transport # NoTransport
                    => conn'[transport] \in {"closing", "closed"}]_vars

\* C5: a startup query task sends a command to an open transport only while
\* the connection it was started for is open, and no poll loop started on a
\* transport whose connection_lost has been delivered is still alive to
\* write while the client is Authenticated.
C5_NoTaskOutlivesItsConnection ==
    /\ [][\A t \in Transports :
            QueryStep(t) /\ conn[transport] = "open" => conn[t] = "open"]_vars
    /\ [](\A k \in LoopKinds, t \in Transports :
            loops[k][t] > 0 /\ LoopContinues => conn[t] # "closed")

\* C6: the loss of a transport is reported to the subscribers exactly once:
\* never twice, and once connection_lost has been delivered.
C6_OneNotificationPerLoss ==
    \A t \in Transports :
        /\ lossNotes[t] <= 1
        /\ conn[t] = "closed" => lossNotes[t] = 1

\* C7: when the unit is off and the while loop of set_mode ends with the
\* requested mode in the cache after k polls, 1 <= k <= 30, set_mode has
\* written SET,1:ONOFF,ON exactly once when it returns, and it has written
\* none while it was still polling.
C7_PowerOnAfterConfirmation ==
    /\ sm.pc = "done" /\ sm.confirmed = "yes" /\ sm.polls \in 1..RetryBound
         /\ CanWrite => sm.ons = 1
    /\ sm.pc \in {"ison", "loop", "poll"} => sm.ons = 0

\* C8: set_mode never writes more than 30 GET,1:MODE polls; when its loop
\* ends without the requested mode in the cache it has polled 30 times, it
\* returns at once and has written no SET,1:ONOFF,ON; and no step of
\* set_mode changes the connection state.
C8_GivesUpWithoutPowerOn ==
    /\ [](/\ sm.polls <= RetryBound
          /\ sm.confirmed = "no"
               => sm.pc = "done" /\ sm.polls = RetryBound /\ sm.ons = 0)
    /\ [][SetModeStep => connectionStatus' = connectionStatus]_vars

\* C8 witness: a set_mode on an Authenticated client has given up.
C8_Witness ==
    sm.pc = "done" /\ sm.confirmed = "no" /\ is_connected /\ sm.polls = RetryBound

\* C9: at the step in which set_mode writes SET,1:ONOFF,ON the cached mode
\* is the requested mode.
C9_PowerOnOnlyInConfirmedMode ==
    [][SetModePowerOn /\ CanWrite => mode = sm.mode]_vars

\* The function codes with an accessor.
AccessorFunctions ==
    {FUNCTION_SETPOINT, FUNCTION_AMBTEMP, FUNCTION_MODE, FUNCTION_FANSP,
     FUNCTION_VANEUD, FUNCTION_VANELR}

\* The line CHN,1:function,value with its terminator.
ChnLine(function, value) ==
    CmdCHN \o <<":">> \o function \o <<",">> \o value \o <<"\r", "\n">>

\* C10: no cache entry holds "32768" or "-32768" and no accessor returns a
\* value made of one; and after a line CHN,1:FUNC,VALUE with a sentinel VALUE
\* the entry of FUNC and its accessor are absent (None).
C10_SentinelIsAbsent ==
    /\ [](/\ \A f \in DOMAIN device : device[f] \notin NULL_VALUES
          /\ setpoint \notin {DivTen(32768), DivTen(0 - 32768)}
          /\ ambient_temperature \notin {DivTen(32768), DivTen(0 - 32768)}
          /\ {mode, fan_speed, vertical_swing, horizontal_swing}
                \cap NULL_VALUES = {})
    /\ [][\A t \in Transports, f \in AccessorFunctions, v \in NULL_VALUES :
            DataReceived(t, ChnLine(f, v))
              => /\ Get(device', f) = None
                 /\ f = FUNCTION_SETPOINT => setpoint' = None
                 /\ f = FUNCTION_AMBTEMP => ambient_temperature' = None
                 /\ f = FUNCTION_MODE => mode' = None
                 /\ f = FUNCTION_FANSP => fan_speed' = None
                 /\ f = FUNCTION_VANEUD => vertical_swing' = None
                 /\ f = FUNCTION_VANELR => horizontal_swing' = None]_vars

\* C10 witness: sentinel lines have been received for the setpoint, the
\* ambient temperature and the mode, and their entries are absent.
C10_Witness ==
    /\ {FUNCTION_SETPOINT, FUNCTION_AMBTEMP, FUNCTION_MODE} \subseteq DOMAIN device
    /\ device[FUNCTION_SETPOINT] = None
    /\ device[FUNCTION_AMBTEMP] = None
    /\ device[FUNCTION_MODE] = None
    /\ setpoint = None /\ ambient_temperature = None /\ mode = None

\* C11: the effect of a line does not depend on how its bytes are split
\* into data_received calls: once every byte of the line in flight has been
\* delivered, the connection state, the identity, the cache and the limits
\* are those that the line arriving whole would have left.
C11_ChunkingDoesNotMatter ==
    wire.rest = <<>> /\ wire.expect # <<>>
        => <<connectionStatus, ident, device, limits>> = wire.expect

\* Whether a chunk holds a CHN,1 or a LIMITS line.
HasUpdateLine(data) ==
    \E k \in 1..Len(SplitLines(data)) :
        LET cmdList == SplitOnce(SplitLines(data)[k], ":")
        IN Len(cmdList) > 1 /\ cmdList[1] \in {CmdCHN, CmdLIMITS}

\* C12: a data_received that changed the cache or the limits runs the update
\* fan-out exactly once, a data_received of a chunk without a CHN,1 or
\* LIMITS line runs none, and no data_received runs more than one.
C12_OneNotificationPerChunk ==
    [][\A t \in Transports, data \in ParseChunks :
         DataReceived(t, data)
           => /\ updates' <= 1
              /\ (device' # device \/ limits' # limits) => updates' = 1
              /\ ~HasUpdateLine(data) => updates' = 0]_vars

\* C13: no chunk makes data_received raise; a line without a value leaves
\* the cache as it is and the line after it is applied and notified; a
\* LIMITS line with a value that is no number leaves the limits as they are.
C13_MalformedLineIsDropped ==
    [][\A t \in Transports :
         /\ \A data \in ParseChunks : DataReceived(t, data) => raised' = "none"
         /\ DataReceived(t, ChunkNoValueThenFan)
              => /\ Get(device', FUNCTION_FANSP) = <<"2">>
                 /\ Get(device', FUNCTION_MODE) = Get(device, FUNCTION_MODE)
                 /\ updates' = 1
         /\ DataReceived(t, ChunkLimitsBad) => limits' = limits]_vars

\* C14: while the client is Authenticated a keep_alive loop is alive, as a
\* poll_status and a poll_ambtemp loop are.
C14_KeepAliveRuns ==
    is_connected => \E t \in Transports : loops["keep_alive"][t] > 0

\* C15: a periodic loop that wakes up writes only when the state is
\* Authenticated, and then its own command; when the state is not
\* Authenticated it writes nothing, raises nothing and ends; and a loop is
\* started only by a data_received that processed an ID line.
C15_LoopsFollowTheState ==
    [][/\ \A k \in LoopKinds, t \in Transports :
            PollWake(k, t)
              => /\ raised' = "none"
                 /\ wrote' # NoWrite
                      => is_connected /\ wrote'[2] = LoopCmd(k) \o <<"\r">>
                 /\ ~is_connected
                      => wrote' = NoWrite /\ loops'[k][t] = loops[k][t] - 1
       /\ \A k \in LoopKinds, t \in Transports :
            loops'[k][t] > loops[k][t]
              => \E data \in LoopChunks :
                   /\ DataReceived(t, data)
                   /\ Received(Entry, data).ids > 0]_vars

\* C15 witness: an ID line was processed on the first transport, its
\* connection was lost, and every loop started on it has ended.
C15_Witness ==
    /\ ident.mac # None
    /\ conn[1] = "closed"
    /\ connectionStatus = API_DISCONNECTED
    /\ \A k \in LoopKinds : loops[k][1] = 0

\* The limit functions in the order of the startup queries.
LimitFunctions ==
    <<FUNCTION_SETPOINT, FUNCTION_FANSP, FUNCTION_MODE, FUNCTION_VANEUD,
      FUNCTION_VANELR>>

\* The k-th command of a startup sequence with its terminator: ID, then
\* LIMITS:<function> for each limit function.
StartupWrite(k) ==
    IF k = 1 THEN <<"I", "D", "\r">>
    ELSE <<"L", "I", "M", "I", "T", "S", ":">> \o LimitFunctions[k - 1] \o <<"\r">>

NoSocket == transport = NoTransport \/ conn[transport] # "open"

\* C17: a step of a command method taken while the client holds no open
\* socket raises nothing, writes nothing, and leaves the connection state,
\* the identity, the cache and the limits as they are.
C17_CommandsSafeWithoutSocket ==
    [][(SetModeStep \/ \E c \in OneShots : SetValue(c[1], c[2])) /\ NoSocket
         => /\ raised' = "none"
            /\ wrote' = NoWrite
            /\ UNCHANGED <<connectionStatus, ident, device, limits>>]_vars

\* C18: every update fan-out calls every registered listener, in the order
\* of registration, and no failure of a listener leaves the data_received,
\* connection_lost or connect that ran the fan-out.
C18_ListenersAreIsolated ==
    [][updates' = 1
         => /\ notified' = [i \in 1..Len(updateCallbacks) |-> i]
            /\ raised' # "ListenerError"]_vars

\* C19: no step removes a key from the cache; the cache, the limits and the
\* identity change only in a data_received; and stop(), connection_lost and
\* connect() leave all three as they are.
C19_NothingIsForgotten ==
    [][/\ DOMAIN device \subseteq DOMAIN device'
       /\ <<ident, device, limits>>' # <<ident, device, limits>>
            => \E t \in Transports, data \in CacheChunks : DataReceived(t, data)
       /\ Stop \/ Connect \/ (\E t \in Transports : ConnectionLost(t))
            => UNCHANGED <<ident, device, limits>>]_vars

\* C19 witness: the mode, the setpoint limits and the identity received on
\* the first connection are still there after that connection was lost and
\* a second one was made.
C19_Witness ==
    /\ FUNCTION_MODE \in DOMAIN device
    /\ device[FUNCTION_MODE] = MODE_COOL
    /\ limits.setpoint_minimum = DivTen(160)
    /\ ident.mac = <<"A">>
    /\ conn[1] = "closed"
    /\ transport = 2
    /\ conn[2] = "open"
    /\ connectionStatus = API_CONNECTING

\* C20: after data_received has processed a line ID:<fields> with at least
\* six fields, the model, the MAC address, the firmware version and the RSSI
\* are the first, second, fifth and sixth field, and the state is
\* Authenticated.
C20_IdentityFromIdLine ==
    [][\A t \in Transports, fields \in IdFieldLists :
         DataReceived(t, IdLine(fields))
           => /\ Len(fields) >= 6
              /\ ident' = [model |-> fields[1], mac |-> fields[2],
                           firmversion |-> fields[5], rssi |-> fields[6]]
              /\ connectionStatus' = API_AUTHENTICATED]_vars

\* C20 witness: the line of seven fields has been processed.
C20_Witness ==
    /\ ident = [model |-> IdFieldsSeven[1], mac |-> IdFieldsSeven[2],
                firmversion |-> IdFieldsSeven[5], rssi |-> IdFieldsSeven[6]]
    /\ connectionStatus = API_AUTHENTICATED

(***************************************************************************)
(* set_temperature and the temperatures of the cache.                      *)
(***************************************************************************)
DigitChars == <<"0", "1", "2", "3", "4", "5", "6", "7", "8", "9">>

RECURSIVE NatToStr(_)
\* The decimal digits of a natural number, as the f-string writes an int.
NatToStr(n) ==
    IF n < 10 THEN <<DigitChars[n + 1]>>
    ELSE NatToStr(n \div 10) \o <<DigitChars[(n % 10) + 1]>>

\* str(n) of an int, which f"SET,1:{uid},{value}" applies to set_temp.
IntToStr(n) == IF n < 0 THEN <<"-">> \o NatToStr(0 - n) ELSE NatToStr(n)

\* The truncation toward zero of a quotient, as int() truncates.
TruncDiv(a, b) == IF a < 0 THEN 0 - ((0 - a) \div b) ELSE a \div b

\* int(setpoint) * 10: the whole degrees only.
WholeDegreesTimesTen(x) == TruncDiv(x[2], 10) * 10

\* int(setpoint * 10) of set_temperature for the float x = k/10: the product
\* of the double nearest to k/10 by 10 rounds to k for every k explored, and
\* int() of it is k.
IntTimesTen(x) == x[2]

\* The temperatures given to set_temperature, in tenths of a degree.
TempTenths == {0 - 55, 0, 210, 215}

\* set_temperature(setpoint).
SetTemperature(x) == SetValue(FUNCTION_SETPOINT, IntToStr(IntTimesTen(x)))

\* The reply of the gateway to the command SET,<ac>:<function>,<value> that
\* was just written: an ACK line and the CHN line of the new value.
EchoOf(cmd) ==
    LET request == Split(SplitLines(cmd)[1], ",")
        acfn == Split(request[2], ":")
    IN  <<"A", "C", "K", "\r", "\n", "C", "H", "N", ",">> \o acfn[1]
          \o <<":">> \o acfn[2] \o <<",">> \o request[3] \o <<"\r", "\n">>

\* The gateway answers the SET command of the last step, and data_received
\* processes the answer.
Echo(t) ==
    /\ wrote # NoWrite
    /\ wrote[1] = t
    /\ DataReceived(t, EchoOf(wrote[2]))

\* The raw AMBTEMP values the gateway reports.
AmbRaw == {180, 32767, 65436}

\* The line CHN,1:AMBTEMP,v.
AmbLine(v) == ChnLine(FUNCTION_AMBTEMP, IntToStr(v))

NextTemps ==
    \/ \E k \in TempTenths : SetTemperature(DivTen(k))
    \/ \E c \in OneShots : SetValue(c[1], c[2])
    \/ \E t \in Transports : Echo(t)
    \/ \E t \in Transports, v \in AmbRaw : DataReceived(t, AmbLine(v))
    \/ \E t \in Transports : Drop(t)

SpecTemps == (Init \/ JustAuthenticated) /\ [][NextTemps]_vars

\* The text SET,1:<function>,<value> and its carriage return.
SetText(function, value) ==
    <<"S", "E", "T", ",", "1", ":">> \o function \o <<",">> \o value
      \o <<"\r">>

\* The decimal text of the tenths written for the temperatures explored.
TenthsText ==
    [k \in TempTenths |->
       CASE k = 0 - 55 -> <<"-", "5", "5">>
         [] k = 0 -> <<"0">>
         [] k = 210 -> <<"2", "1", "0">>
         [] k = 215 -> <<"2", "1", "5">>]

\* C21: on an open socket set_temperature(t) writes exactly
\* SET,1:SETPTEMP,<10*t>, processing the echoed CHN,1:SETPTEMP,<10*t> makes
\* the setpoint accessor return t, and each other one-shot setter writes
\* exactly SET,1:<FUNC>,<VALUE>.
C21_SetpointRoundTrip ==
    [][/\ \A k \in TempTenths :
            SetTemperature(DivTen(k)) /\ ~NoSocket
              => wrote' = <<transport, SetText(FUNCTION_SETPOINT, TenthsText[k])>>
       /\ \A k \in TempTenths, t \in Transports :
            (/\ wrote = <<t, SetText(FUNCTION_SETPOINT, TenthsText[k])>>
             /\ Echo(t))
              => setpoint' = DivTen(k)
       /\ \A c \in OneShots :
            SetValue(c[1], c[2]) /\ ~NoSocket
              => wrote' = <<transport, SetText(c[1], c[2])>>]_vars

\* C21 witness: the echo of set_temperature(21.5) has been processed.
C21_Witness ==
    /\ FUNCTION_SETPOINT \in DOMAIN device
    /\ device[FUNCTION_SETPOINT] = <<"2", "1", "5">>
    /\ setpoint = DivTen(215)


\* C22: after a line CHN,1:AMBTEMP,v with a raw value v in 0..65535 other
\* than the sentinel, the ambient temperature accessor returns s/10 where
\* s = v - 65536 when v >= 32768 and s = v otherwise (65436 reads -10.0).
C22_TwosComplementAmbient ==
    [][\A t \in Transports, v \in AmbRaw :
         DataReceived(t, AmbLine(v))
           => ambient_temperature'
                = DivTen(IF v >= 32768 THEN v - 65536 ELSE v)]_vars


(***************************************************************************)
(* The LIMITS responses.                                                   *)
(***************************************************************************)
\* The line LIMITS:<function>,[v1,...,vn] as the gateway sends it.
LimitsLine(function, values) ==
    CmdLIMITS \o <<":">> \o function \o <<",", "[">> \o Join(values, ",")
      \o <<"]", "\r", "\n">>

\* The pairs of a LIMITS:SETPTEMP response, in tenths of a degree.
SetpointPairs == {<<160, 300>>, <<180, 280>>, <<300, 160>>}

\* The values of a LIMITS response for a list: those of the emulator for
\* FANSP, and a list of one value.
LimitLists ==
    {<<MODE_AUTO, <<"1">>, <<"2">>, <<"3">>, <<"4">>>>,
     <<MODE_COOL>>}

\* The functions whose LIMITS response is a list, and the field of each.
ListFunctions == {FUNCTION_FANSP, FUNCTION_MODE, FUNCTION_VANEUD, FUNCTION_VANELR}

ListField(function) ==
    CASE function = FUNCTION_FANSP -> "fan_speed_list"
      [] function = FUNCTION_MODE -> "operation_list"
      [] function = FUNCTION_VANEUD -> "vertical_vane_list"
      [] function = FUNCTION_VANELR -> "horizontal_vane_list"

\* A LIMITS:SETPTEMP response whose second value is not a number.
LimitsHalf ==
    LimitsLine(FUNCTION_SETPOINT, <<<<"4", "0", "0">>, <<"x">>>>)

NextLimits ==
    \/ \E t \in Transports, p \in SetpointPairs :
         DataReceived(t, LimitsLine(FUNCTION_SETPOINT,
                                    <<IntToStr(p[1]), IntToStr(p[2])>>))
    \/ \E t \in Transports, f \in ListFunctions, l \in LimitLists :
         DataReceived(t, LimitsLine(f, l))
    \/ \E t \in Transports : DataReceived(t, LimitsHalf)

SpecLimits == JustConnected /\ [][NextLimits]_vars

\* C23: a line LIMITS:SETPTEMP,[a,b] with two integers sets the minimum
\* setpoint to a/10 and the maximum to b/10; a line LIMITS:F,[v1,...,vn] for
\* F among FANSP, MODE, VANEUD and VANELR sets the list of F to v1..vn in
\* that order and leaves the other three lists and the setpoint pair
\* unchanged.
C23_LimitsParsing ==
    [][/\ \A t \in Transports, p \in SetpointPairs :
            DataReceived(t, LimitsLine(FUNCTION_SETPOINT,
                                       <<IntToStr(p[1]), IntToStr(p[2])>>))
              => /\ limits'.setpoint_minimum = DivTen(p[1])
                 /\ limits'.setpoint_maximum = DivTen(p[2])
       /\ \A t \in Transports, f \in ListFunctions, l \in LimitLists :
            DataReceived(t, LimitsLine(f, l))
              => /\ limits'[ListField(f)] = l
                 /\ \A g \in DOMAIN limits :
                      g # ListField(f) => limits'[g] = limits[g]]_vars

\* C23 witness: the setpoint pair and the fan speeds of the emulator have
\* been stored.
C23_Witness ==
    /\ limits.setpoint_minimum = DivTen(160)
    /\ limits.setpoint_maximum = DivTen(300)
    /\ limits.fan_speed_list = <<MODE_AUTO, <<"1">>, <<"2">>, <<"3">>, <<"4">>>>
    /\ limits.operation_list = <<>>

\* C24: when both the minimum and the maximum setpoint are known, the
\* minimum is at most the maximum; and each capability list is empty until
\* a LIMITS response for its function has been processed.
C24_LimitsInvariant ==
    /\ [](limits.setpoint_minimum # None /\ limits.setpoint_maximum # None
            => limits.setpoint_minimum[2] <= limits.setpoint_maximum[2])
    /\ [][\A f \in ListFunctions :
            limits[ListField(f)] = <<>> /\ limits'[ListField(f)] # <<>>
              => \E t \in Transports, l \in LimitLists :
                   DataReceived(t, LimitsLine(f, l))]_vars


(***************************************************************************)
(* The client against the gateway emulator.                                *)
(***************************************************************************)
\* devices["1"] of the emulator, in the order of the dict.
EmulatorDevices ==
    << <<FUNCTION_MODE, MODE_AUTO>>,
       <<FUNCTION_SETPOINT, <<"2", "1", "0">>>>,
       <<FUNCTION_ONOFF, POWER_ON>>,
       <<FUNCTION_FANSP, MODE_AUTO>>,
       <<FUNCTION_AMBTEMP, <<"1", "8", "0">>>>,
       <<FUNCTION_VANEUD, MODE_AUTO>>,
       <<FUNCTION_VANELR, MODE_AUTO>>,
       <<FUNCTION_ERRSTATUS, <<"O", "K">>>>,
       <<FUNCTION_ERRCODE, <<>>>> >>

\* The ID response of the emulator.
EmulatorId ==
    <<"I", "D", ":", "I", "S", "-", "I", "R", "-", "W", "M", "P", "-", "1", ",",
      "0", "0", "1", "D", "C", "9", "A", "2", "C", "9", "1", "1", ",",
      "1", "9", "2", ".", "1", "6", "8", ".", "1", "0", "0", ".", "2", "4", "6", ",",
      "A", "S", "C", "I", "I", ",", "v", "0", ".", "0", ".", "1", ",", "-", "4", "4">>

EmulatorMac == <<"0", "0", "1", "D", "C", "9", "A", "2", "C", "9", "1", "1">>

\* The lists of the emulator's LIMITS responses.
EmulatorFans == <<MODE_AUTO, <<"1">>, <<"2">>, <<"3">>, <<"4">>>>
EmulatorVanes == <<MODE_AUTO, <<"1">>, <<"2">>, <<"3">>, <<"S", "W", "I", "N", "G">>>>
EmulatorModes == <<MODE_AUTO, MODE_HEAT, MODE_DRY, MODE_COOL, MODE_FAN>>

\* f"CHN,{acNum}:{function},{value}"
EmulatorChn(acNum, function, value) ==
    <<"C", "H", "N", ",">> \o acNum \o <<":">> \o function \o <<",">> \o value

RECURSIVE EmulatorAll(_, _)
\* The response to GET,<acNum>:*, one CHN line for each entry from the i-th.
EmulatorAll(acNum, i) ==
    IF i > Len(EmulatorDevices) THEN <<>>
    ELSE EmulatorChn(acNum, EmulatorDevices[i][1], EmulatorDevices[i][2])
           \o <<"\r", "\n">> \o EmulatorAll(acNum, i + 1)

\* The line without its line ending, as the emulator holds a response
\* before it appends the line ending.
Unterminated(line) == SubSeq(line, 1, Len(line) - 2)

\* The response of the emulator's loop to one request line, with the line
\* ending it appends.
EmulatorResponse(line) ==
    LET request == Split(line, ",")
        head == Split(request[1], ":")
        response ==
          IF request[1] = CmdID THEN EmulatorId
          ELSE IF request[1] = <<"G", "E", "T">>
          THEN LET acNum == Split(request[2], ":")[1]
                   function == Split(request[2], ":")[2]
               IN IF acNum = <<"1">> /\ function = <<"*">>
                  THEN EmulatorAll(acNum, 1)
                  ELSE IF acNum = <<"1">>
                          /\ \E i \in 1..Len(EmulatorDevices) :
                               EmulatorDevices[i][1] = function
                       THEN LET i == CHOOSE j \in 1..Len(EmulatorDevices) :
                                       EmulatorDevices[j][1] = function
                            IN EmulatorChn(acNum, function, EmulatorDevices[i][2])
                       ELSE <<"E", "R", "R">>
          ELSE IF head[1] = CmdLIMITS
          THEN LET limit == head[2]
               IN IF limit = FUNCTION_FANSP
                  THEN Unterminated(LimitsLine(limit, EmulatorFans))
                  ELSE IF limit \in {FUNCTION_VANEUD, FUNCTION_VANELR}
                  THEN Unterminated(LimitsLine(limit, EmulatorVanes))
                  ELSE IF limit = FUNCTION_SETPOINT
                  THEN Unterminated(LimitsLine(limit, <<<<"1", "6", "0">>,
                                                        <<"3", "0", "0">>>>))
                  ELSE IF limit = FUNCTION_MODE
                  THEN Unterminated(LimitsLine(limit, EmulatorModes))
                  ELSE <<>>
          ELSE <<>>
    IN response \o <<"\r", "\n">>

RECURSIVE EmulatorResponses(_)
EmulatorResponses(lines) ==
    IF lines = <<>> THEN <<>>
    ELSE EmulatorResponse(Head(lines)) \o EmulatorResponses(Tail(lines))

\* data_received of the emulator: what it writes back for the bytes written
\* to it.
EmulatorReceived(data) == EmulatorResponses(SplitLines(data))

\* The commands the client of this specification writes, as written.
ClientWrites ==
    {StartupCmds[i] \o <<"\r">> : i \in 1..Len(StartupCmds)}
      \cup {LoopCmd(k) \o <<"\r">> : k \in LoopKinds}

\* The emulator's answer to each of them.
EmulatorReplies == [b \in ClientWrites |-> EmulatorReceived(b)]

\* What is in flight to the client once the emulator has answered the write
\* w of a step.
Answered(w) ==
    IF w = NoWrite THEN wire
    ELSE [wire EXCEPT !.rest = @ \o EmulatorReplies[w[2]]]

\* An iteration of query_initial_state, answered by the emulator.
QueryAnswered(t) == QueryInitialState(t) /\ wire' = Answered(wrote')

\* A wake-up of a poll loop, answered by the emulator; the loop is taken up
\* once the earlier answers have been delivered.
PollAnswered(kind, t) ==
    /\ wire.rest = <<>>
    /\ Poll(kind, t)
    /\ wire' = Answered(wrote')

\* data_received with the first line in flight from the emulator.
DeliverLine(t) ==
    /\ wire.rest # <<>>
    /\ Deliver(t, SubSeq(wire.rest, 1, Find(wire.rest, "\n")))
    /\ wire' = [wire EXCEPT
                  !.rest = SubSeq(@, Find(@, "\n") + 1, Len(@))]

NextEmulated ==
    \/ Connect
    \/ \E t \in Transports : ConnectionMade(t)
    \/ \E t \in Transports : QueryAnswered(t)
    \/ \E t \in Transports, kind \in LoopKinds : PollAnswered(kind, t)
    \/ \E t \in Transports : DeliverLine(t)

\* A step that takes the first line in flight off the wire while a
\* connection is open; DeliverLine is the only action that takes such a step.
LineTaken ==
    /\ wire.rest # <<>>
    /\ \E t \in Transports : conn[t] = "open"
    /\ wire' = [wire EXCEPT
                  !.rest = SubSeq(@, Find(@, "\n") + 1, Len(@))]

\* The connection to the emulator is established, and the event loop runs a
\* task whose sleep is over and calls data_received for what has arrived.
SpecEmulated ==
    /\ Init
    /\ [][NextEmulated]_vars
    /\ WF_vars(\E t \in Transports : ConnectionMade(t))
    /\ WF_vars(\E t \in Transports : QueryAnswered(t))
    /\ WF_wire(LineTaken)

\* The client has been identified by the emulator, has written its whole
\* startup sequence and holds every limit of the emulator.
EmulatedGoal ==
    /\ connectionStatus = API_AUTHENTICATED
    /\ ident.mac = EmulatorMac
    /\ \E t \in Transports : conn[t] = "open" /\ query[t] > Len(StartupCmds)
    /\ limits = [operation_list |-> EmulatorModes,
                 fan_speed_list |-> EmulatorFans,
                 vertical_vane_list |-> EmulatorVanes,
                 horizontal_vane_list |-> EmulatorVanes,
                 setpoint_minimum |-> DivTen(160),
                 setpoint_maximum |-> DivTen(300)]

\* C25: against the emulator, after connect() on a Disconnected client whose
\* TCP connection succeeds, the client eventually is Authenticated with the
\* MAC 001DC9A2C911, has issued all its startup LIMITS queries, and holds
\* every limit of the emulator's replies (16.0..30.0, lists of 5 entries).
C25_EndToEndWithEmulator == (connectionStatus = API_CONNECTING) ~> EmulatedGoal

\* C25 witness: the goal, with five entries in each list.
C25_Witness ==
    /\ EmulatedGoal
    /\ \A f \in ListFunctions : Len(limits[ListField(f)]) = 5
    /\ wire.rest = <<>>


\* The startup sequence of transport u is between two of its writes: the
\* task sleeps the fixed delay that separates them.
BetweenStartupWrites(u) ==
    /\ conn[u] = "open"
    /\ query[u] \in 2..Len(StartupCmds)

\* C26: from connection_made until the last LIMITS query has been written,
\* any two consecutive writes of the client's tasks are separated by the
\* fixed delay.  Two startup writes are exactly that delay apart, so no poll
\* loop writes to the socket between two of them.
C26_StartupWritesAreSpaced ==
    [][\A kind \in LoopKinds, t \in Transports :
         PollWake(kind, t) /\ wrote' # NoWrite
           => ~BetweenStartupWrites(wrote'[1])]_vars


\* The transports that are a TCP connection in progress or open.
LiveConnections == {t \in Transports : conn[t] \in {"pending", "open"}}

\* C27: a client has at most one open or in-progress TCP connection at any
\* time, under every interleaving of stop(), connect() and connection_lost.
C27_SingleConnection == Cardinality(LiveConnections) <= 1


\* C28: in every reachable state a client has at most one live full-poll
\* loop and at most one live ambient-poll loop.
C28_OneLoopOfEachKind == \A k \in StartedOnId : Live(k) <= 1

\* C29: no command is written to a transport after stop() closed it or
\* connection_lost reported it lost: the startup sequence that
\* connection_made(t) started writes nothing once t is gone, and never
\* writes to the transport of a later connection.
C29_NoWriteAfterClose ==
    [][\A t \in Transports :
         QueryStep(t)
           => /\ conn[t] # "open" => wrote' = NoWrite
              /\ wrote' # NoWrite => wrote'[1] = t]_vars


\* The unit is cached as powered on.
CachedOn == FUNCTION_ONOFF \in DOMAIN device /\ device[FUNCTION_ONOFF] = POWER_ON

\* C30 as stated: when the cached power value is ON at the call, set_mode
\* writes no GET,1:MODE poll and no SET,1:ONOFF,ON, and when m is not one of
\* AUTO, DRY, FAN, COOL, HEAT it writes no SET,1:MODE at all.
C30_SetModeOnAtTheCall ==
    /\ [](sm.pc # "idle" /\ sm.wasOn => sm.polls = 0 /\ sm.ons = 0)
    /\ [](sm.pc # "idle" /\ sm.mode \notin MODES => sm.sets = 0)

\* C30 as amended: set_mode(m) writes SET,1:MODE,m for every m among the modes,
\* whether the unit is on or off; when the cached power value is ON where
\* set_mode tests it, after that write, the call ends there and has written no
\* GET,1:MODE poll and no SET,1:ONOFF,ON; and for an m that is not among the
\* modes it writes no SET,1:MODE at all.
C30_SetModeOnAtTheTest ==
    /\ [][\A m \in MODES :
            SetModeCall(m) /\ ~NoSocket
              => wrote' = <<transport, SetText(FUNCTION_MODE, m)>>]_vars
    /\ [][SetModeIsOn /\ CachedOn
            => /\ sm'.pc = "done"
               /\ sm'.polls = 0 /\ sm'.ons = 0
               /\ wrote' = NoWrite]_vars
    /\ [][sm.pc = "done" /\ sm' # sm
            => sm'.pc = "ison" /\ sm'.polls = 0 /\ sm'.ons = 0]_vars
    /\ [](sm.pc # "idle" /\ sm.mode \notin MODES => sm.sets = 0)
    /\ [][\A m \in {<<"X">>} : SetModeCall(m) => wrote' = NoWrite]_vars

\* C30 witness: set_mode(COOL) for a unit cached as on has ended after its
\* one SET,1:MODE,COOL.
C30_Witness ==
    /\ sm.pc = "done"
    /\ sm.mode = MODE_COOL
    /\ sm.wasOn
    /\ CachedOn
    /\ sm.sets = 1
    /\ sm.polls = 0
    /\ sm.ons = 0
    /\ sm.confirmed = "na"


=============================================================================
